---- MODULE Spec2Model ----
(***************************************************************************)
(* Model of diary/mlx_formatter.py: the conversion of a MATLAB live-script *)
(* HTML export into a two-pane document.                                   *)
(*                                                                         *)
(* The parsed document (a BeautifulSoup tree) is a heap: a function from   *)
(* node identities to nodes, each node holding its tag name, attributes,   *)
(* own text and the sequence of its children.  A node that no other node   *)
(* lists among its contents is detached (extracted, or newly created).     *)
(* Python strings are sequences of one-character strings.                  *)
(***************************************************************************)
EXTENDS Integers, Sequences, FiniteSets, TLC

VARIABLES html_source, soup, pc, raised, split_sections, rendered, calls

vars == <<html_source, soup, pc, raised, split_sections, rendered, calls>>

-----------------------------------------------------------------------------
(* Bounds of the model *)

MaxSourceLines == 2
MaxImages == 3
MaxNodes == 4
MaxLines == 5
MaxHeadings == 3
MaxCalls == 2

-----------------------------------------------------------------------------
(* Python str operations *)

Whitespace == {" ", "\n", "\t"}

RECURSIVE LStrip(_)
LStrip(s) ==
    IF s # <<>> /\ Head(s) \in Whitespace THEN LStrip(Tail(s)) ELSE s

RECURSIVE RStrip(_)
RStrip(s) ==
    IF s # <<>> /\ s[Len(s)] \in Whitespace
    THEN RStrip(SubSeq(s, 1, Len(s) - 1))
    ELSE s

\* str.strip()
Strip(s) == RStrip(LStrip(s))

\* str.startswith(prefix)
StartsWith(s, prefix) ==
    /\ Len(prefix) <= Len(s)
    /\ SubSeq(s, 1, Len(prefix)) = prefix

\* str.split(sep) for a one-character separator: always at least one piece
RECURSIVE SplitFrom(_, _, _)
SplitFrom(s, sep, cur) ==
    IF s = <<>> THEN <<cur>>
    ELSE IF Head(s) = sep THEN <<cur>> \o SplitFrom(Tail(s), sep, <<>>)
    ELSE SplitFrom(Tail(s), sep, Append(cur, Head(s)))

Split(s, sep) == SplitFrom(s, sep, <<>>)

\* sep.join(parts)
RECURSIVE Join(_, _)
Join(parts, sep) ==
    IF parts = <<>> THEN <<>>
    ELSE IF Len(parts) = 1 THEN parts[1]
    ELSE parts[1] \o <<sep>> \o Join(Tail(parts), sep)

\* str.replace(old, '') for a one-character old
RECURSIVE RemoveChar(_, _)
RemoveChar(s, c) ==
    IF s = <<>> THEN <<>>
    ELSE IF Head(s) = c THEN RemoveChar(Tail(s), c)
    ELSE <<Head(s)>> \o RemoveChar(Tail(s), c)

\* 'anchor{}'.format(n): the decimal digits of n
Digit(d) == CASE d = 0 -> "0" [] d = 1 -> "1" [] d = 2 -> "2" [] d = 3 -> "3"
              [] d = 4 -> "4" [] d = 5 -> "5" [] d = 6 -> "6" [] d = 7 -> "7"
              [] d = 8 -> "8" [] d = 9 -> "9"

RECURSIVE Decimal(_)
Decimal(n) == IF n < 10 THEN <<Digit(n)>> ELSE Append(Decimal(n \div 10), Digit(n % 10))

AnchorId(n) == <<"a", "n", "c", "h", "o", "r">> \o Decimal(n)

-----------------------------------------------------------------------------
(* Regular expressions of convert_equations *)

\* number of consecutive '$' of s from position i on
RECURSIVE RunLen(_, _)
RunLen(s, i) ==
    IF i <= Len(s) /\ s[i] = "$" THEN 1 + RunLen(s, i + 1) ELSE 0

\* .+? then \$: the first position k >= from holding '$', 0 when there is none
RECURSIVE LazyEnd(_, _)
LazyEnd(s, from) ==
    IF from > Len(s) THEN 0
    ELSE IF s[from] = "$" THEN from
    ELSE LazyEnd(s, from + 1)

\* (\$+.+?\$+) matched at i with the opening run trying g, g-1, ..., 1
\* delimiters (greedy, backtracking); .+? takes at least one character of any
\* kind (DOTALL) and the closing run is greedy.  The position just after the
\* match, 0 when there is no match at i.
RECURSIVE MatchEnd(_, _, _)
MatchEnd(s, i, g) ==
    IF g = 0 THEN 0
    ELSE LET k == LazyEnd(s, i + g + 1)
         IN  IF k # 0 THEN k + RunLen(s, k) ELSE MatchEnd(s, i, g - 1)

\* equation_re.findall(s), scanning from position i: leftmost matches,
\* non-overlapping, each returned whole (the pattern is one group)
RECURSIVE FindAllFrom(_, _)
FindAllFrom(s, i) ==
    IF i > Len(s) THEN <<>>
    ELSE LET e == MatchEnd(s, i, RunLen(s, i))
         IN  IF e = 0 THEN FindAllFrom(s, i + 1)
             ELSE <<SubSeq(s, i, e - 1)>> \o FindAllFrom(s, e)

FindAll(s) == FindAllFrom(s, 1)

\* re.sub('(?<=\n)\%', ' ', s): a '%' right after a newline becomes a space
SubPercent(s) ==
    [i \in 1..Len(s) |->
        IF s[i] = "%" /\ i > 1 /\ s[i - 1] = "\n" THEN " " ELSE s[i]]

-----------------------------------------------------------------------------
(* The BeautifulSoup tree *)

Root == 0
None == -1

Tag(name, attrs, string, contents) ==
    [name |-> name, attrs |-> attrs, string |-> string, contents |-> contents]

Attr(name, value) == [name |-> name, value |-> value]

\* Tag.has_attr(name)
HasAttr(node, name) == \E a \in node.attrs : a.name = name

\* the tag carries the class name c (class is a multi-valued attribute)
HasClass(node, c) ==
    \E a \in node.attrs : a.name = "class" /\ \E i \in 1..Len(a.value) : a.value[i] = c

\* variant: the search does not descend (recursive=False), only the children
ChildrenOnly(h, id) == h[id].contents

\* the nodes below id, in document order
RECURSIVE Descendants(_, _), DescendantsOfAll(_, _)
Descendants(h, id) == DescendantsOfAll(h, h[id].contents)
DescendantsOfAll(h, ids) ==
    IF ids = <<>> THEN <<>>
    ELSE <<Head(ids)>> \o Descendants(h, Head(ids)) \o DescendantsOfAll(h, Tail(ids))

\* tag.find_all(...): the descendants among the tags the filter matches,
\* in document order
FindAllTags(h, id, matching) ==
    SelectSeq(Descendants(h, id), LAMBDA i : i \in matching)

\* the tags of the heap that are named name
Named(h, name) == {i \in DOMAIN h : h[i].name = name}

\* the tags of the heap that carry the class c
WithClass(h, c) == {i \in DOMAIN h : HasClass(h[i], c)}

\* tag.parent
ParentOf(h, id) ==
    IF \E p \in DOMAIN h : \E i \in 1..Len(h[p].contents) : h[p].contents[i] = id
    THEN CHOOSE p \in DOMAIN h : \E i \in 1..Len(h[p].contents) : h[p].contents[i] = id
    ELSE None

RECURSIVE Without(_, _)
Without(ids, id) ==
    IF ids = <<>> THEN <<>>
    ELSE IF Head(ids) = id THEN Without(Tail(ids), id)
    ELSE <<Head(ids)>> \o Without(Tail(ids), id)

\* tag.extract(): detach the tag from its parent; a detached tag stays as it is
Extract(h, id) ==
    LET p == ParentOf(h, id)
    IN  IF p = None THEN h
        ELSE [h EXCEPT ![p].contents = Without(h[p].contents, id)]

\* soup.new_tag(...): a new detached tag
NewId(h) == Cardinality(DOMAIN h)
NewTag(h, node) == h @@ (NewId(h) :> node)

\* old.replace_with(new): new takes the place of old in old's parent
ReplaceWith(h, old, new) ==
    LET p == ParentOf(h, old)
    IN  [h EXCEPT ![p].contents =
            [i \in 1..Len(h[p].contents) |->
                IF h[p].contents[i] = old THEN new ELSE h[p].contents[i]]]

\* tag.wrap(wrapper): wrapper takes the place of tag, tag becomes its child
Wrap(h, id, wrapper) ==
    LET h1 == ReplaceWith(h, id, wrapper)
    IN  [h1 EXCEPT ![wrapper].contents = Append(h1[wrapper].contents, id)]

\* tag.get_text(): all the text below the tag, in document order
RECURSIVE GetText(_, _), GetTextOfAll(_, _)
GetText(h, id) ==
    (IF h[id].name = "#comment" THEN <<>> ELSE h[id].string)
    \o GetTextOfAll(h, h[id].contents)
GetTextOfAll(h, ids) ==
    IF ids = <<>> THEN <<>>
    ELSE GetText(h, Head(ids)) \o GetTextOfAll(h, Tail(ids))

\* tag.encode_contents() / the markup of a node: the tree below it, without
\* the node identities
RECURSIVE Markup(_, _), EncodeContents(_, _)
Markup(h, id) ==
    [name |-> h[id].name, attrs |-> h[id].attrs, string |-> h[id].string,
     contents |-> EncodeContents(h, id)]
EncodeContents(h, id) ==
    [i \in 1..Len(h[id].contents) |-> Markup(h, h[id].contents[i])]

-----------------------------------------------------------------------------
(* convert_equations *)

SENTINEL == <<"##### SOURCE BEGIN #####">>

\* ml_source before any comment matched: None, which `if not ml_source`
\* treats as it treats the empty string
NoSource == <<>>

\* the last comment whose stripped text starts with the sentinel, NoSource
\* when there is none (the loop keeps overwriting ml_source)
\* variant: the startswith test is missing, any comment is taken for the source
RECURSIVE LastSourceAnyComment(_, _, _)
LastSourceAnyComment(h, comments, ml_source) ==
    IF comments = <<>> THEN ml_source
    ELSE LastSourceAnyComment(h, Tail(comments), Strip(h[Head(comments)].string))

RECURSIVE LastSource(_, _, _)
LastSource(h, comments, ml_source) ==
    IF comments = <<>> THEN ml_source
    ELSE LET comment_text == Strip(h[Head(comments)].string)
         IN  LastSource(h, Tail(comments),
                 IF StartsWith(comment_text, SENTINEL) THEN comment_text ELSE ml_source)

\* soup.findAll(text=lambda text: isinstance(text, Comment))
CommentNodes(h) == FindAllTags(h, Root, Named(h, "#comment"))

MlSource(h) == LastSource(h, CommentNodes(h), NoSource)

\* the stripped lines of the source that start with '%'
CommentLines(ml_source) ==
    LET lines == Split(ml_source, "\n")
        code_lines == [i \in 1..Len(lines) |-> Strip(lines[i])]
    IN  SelectSeq(code_lines, LAMBDA l : Len(l) > 0 /\ l[1] = "%")

Equations(ml_source) == FindAll(Join(CommentLines(ml_source), "\n"))

images_that_are_not_figures(tag) == tag.name = "img" /\ ~HasAttr(tag, "class")

EquationImageDivs(h) ==
    FindAllTags(h, Root, {i \in DOMAIN h : images_that_are_not_figures(h[i])})

\* soup.new_tag('span', class_='math'): new_tag makes an attribute of every
\* keyword it is given, under the keyword's own name
\* variant: the keyword is missing, the element has no attribute
MathSpanNoAttribute == Tag("span", {}, <<>>, <<>>)

MathSpan == Tag("span", {Attr("class_", <<"math">>)}, <<>>, <<>>)

\* the text given to the new element: '%' after a newline blanked, newlines removed
\* variant: the newlines are not removed
EquationTextKeepNewlines(eq) == SubPercent(eq)

EquationText(eq) == RemoveChar(SubPercent(eq), "\n")

\* the loop over range(len(equations)), from index i (1-based here) on: the
\* new element is made first, then equation_image_divs[i] is looked up,
\* which raises IndexError past the end of the list
RECURSIVE EquationLoop(_, _, _, _)
EquationLoop(h, equations, divs, i) ==
    IF i > Len(equations) THEN [soup |-> h, raised |-> "none"]
    ELSE LET new_eq == NewId(h)
             h1 == NewTag(h, [MathSpan EXCEPT !.string = EquationText(equations[i])])
         IN  IF i > Len(divs) THEN [soup |-> h1, raised |-> "IndexError"]
             ELSE EquationLoop(ReplaceWith(h1, divs[i], new_eq), equations, divs, i + 1)

\* convert_equations(soup): the tree it leaves and the exception it raises.
\* A count mismatch is logged and the loop runs all the same.
convert_equations(h) ==
    LET ml_source == MlSource(h)
    IN  IF ml_source = NoSource THEN [soup |-> h, raised |-> "none"]
        ELSE EquationLoop(h, Equations(ml_source), EquationImageDivs(h), 1)

-----------------------------------------------------------------------------
(* make_titles_into_anchors *)

\* soup.find_all(['h1', 'h2'])
Titles(h) == FindAllTags(h, Root, Named(h, "h1") \cup Named(h, "h2"))

\* soup.new_tag('a', id='anchor<n>', href='#', **{'class': 'local-anchor'})
AnchorTag(title_count) ==
    Tag("a", {Attr("id", AnchorId(title_count)), Attr("href", <<"#">>),
              Attr("class", <<"local-anchor">>)}, <<>>, <<>>)

RECURSIVE AnchorLoop(_, _, _)
AnchorLoop(h, titles, title_count) ==
    IF titles = <<>> THEN h
    ELSE LET a == NewId(h)
         IN  AnchorLoop(Wrap(NewTag(h, AnchorTag(title_count)), Head(titles), a),
                        Tail(titles), title_count + 1)

\* variant: the count starts at 0
make_titles_from_zero(h) == AnchorLoop(h, Titles(h), 0)

make_titles_into_anchors(h) == AnchorLoop(h, Titles(h), 1)

-----------------------------------------------------------------------------
(* trim_empty_code_lines *)

\* section.find_all('div', 'inlineWrapper')
CodeLinesOf(h, section) ==
    FindAllTags(h, section, Named(h, "div") \cap WithClass(h, "inlineWrapper"))

\* one of the two loops: extract the lines while their text is empty, and
\* stop at the first line that has text
\* variant: the loop stops after the first line it extracts
TrimLoopOnce(h, lines) ==
    IF lines = <<>> THEN h
    ELSE IF GetText(h, Head(lines)) = <<>> THEN Extract(h, Head(lines)) ELSE h

RECURSIVE TrimLoop(_, _)
TrimLoop(h, lines) ==
    IF lines = <<>> THEN h
    ELSE IF GetText(h, Head(lines)) = <<>>
         THEN TrimLoop(Extract(h, Head(lines)), Tail(lines))
         ELSE h

\* variant: the list is not reversed
NotReversed(s) == s

\* lines[::-1]
Reverse(s) == [i \in 1..Len(s) |-> s[Len(s) + 1 - i]]

\* the list of lines is taken once; the second loop walks the same list
\* backwards, the lines the first loop extracted included
trim_empty_code_lines(h, section) ==
    LET lines == CodeLinesOf(h, section)
    IN  TrimLoop(TrimLoop(h, lines), Reverse(lines))

-----------------------------------------------------------------------------
(* process_section *)

\* section.find_all('div', 'outputParagraph')
OutputParagraphs(h, section) ==
    FindAllTags(h, section, Named(h, "div") \cap WithClass(h, "outputParagraph"))

\* section.select('.inlineWrapper.outputs')
CodeWithOutputClass(h, section) ==
    FindAllTags(h, section, WithClass(h, "inlineWrapper") \cap WithClass(h, "outputs"))

\* section.select('.LineNodeBlock')
LineNodeBlocks(h, section) == FindAllTags(h, section, WithClass(h, "LineNodeBlock"))

\* tag.attrs[name] = value
SetAttr(tag, name, value) ==
    [tag EXCEPT !.attrs = {a \in @ : a.name # name} \cup {Attr(name, value)}]

RECURSIVE ExtractAll(_, _)
ExtractAll(h, output_paragraphs) ==
    IF output_paragraphs = <<>> THEN h
    ELSE ExtractAll(Extract(h, Head(output_paragraphs)), Tail(output_paragraphs))

RECURSIVE StripOutputClass(_, _)
StripOutputClass(h, code_with_output_class) ==
    IF code_with_output_class = <<>> THEN h
    ELSE LET line == Head(code_with_output_class)
         IN  StripOutputClass(
                 [h EXCEPT ![line] = SetAttr(@, "class", <<"inlineWrapper">>)],
                 Tail(code_with_output_class))

RECURSIVE TrimAll(_, _)
TrimAll(h, code_blocks) ==
    IF code_blocks = <<>> THEN h
    ELSE TrimAll(trim_empty_code_lines(h, Head(code_blocks)), Tail(code_blocks))

\* process_section(section): the tree it leaves and the pair it returns, the
\* markup of the section and the markup of each extracted output
process_section(h, section) ==
    LET output_paragraphs == OutputParagraphs(h, section)
        h1 == ExtractAll(h, output_paragraphs)
        h2 == StripOutputClass(h1, CodeWithOutputClass(h1, section))
        h3 == TrimAll(h2, LineNodeBlocks(h2, section))
    IN  [soup |-> h3,
         section |-> EncodeContents(h3, section),
         outputs |-> [i \in 1..Len(output_paragraphs) |->
                         EncodeContents(h3, output_paragraphs[i])]]

-----------------------------------------------------------------------------
(* convert: the driver *)

\* soup.find_all('div', 'SectionBlock')
SectionBlocks(h) == FindAllTags(h, Root, Named(h, "div") \cap WithClass(h, "SectionBlock"))

\* [process_section(s) for s in sections]: the sections are processed in
\* turn on the one tree
RECURSIVE ProcessSections(_, _, _)
ProcessSections(h, sections, done) ==
    IF sections = <<>> THEN [soup |-> h, split_sections |-> done]
    ELSE LET r == process_section(h, Head(sections))
         IN  ProcessSections(r.soup, Tail(sections),
                 Append(done, [section |-> r.section, outputs |-> r.outputs]))

\* soup.title: the first title element of the document, None without one
SoupTitle(h) ==
    LET titles == FindAllTags(h, Root, Named(h, "title"))
    IN  IF titles = <<>> THEN None ELSE Head(titles)

\* {{ title }} in the template: soup.title.string is None for a title element
\* without text, and the template prints None as the word None
RenderTitle(h, title) ==
    IF h[title].string = <<>> THEN <<"N", "o", "n", "e">> ELSE h[title].string

-----------------------------------------------------------------------------
(* Documents *)

Document(contents) == Tag("[document]", {}, <<>>, contents)
Div(classes, string) == Tag("div", {Attr("class", classes)}, string, <<>>)
Comment(text) == Tag("#comment", {}, text, <<>>)
EquationImage == Tag("img", {Attr("src", <<"eq.png">>)}, <<>>, <<>>)
FigureImage ==
    Tag("img", {Attr("class", <<"figureImage">>), Attr("src", <<"fig.png">>)}, <<>>, <<>>)

\* the children of node i, in document order
Children(parent, n, i) == SelectSeq([j \in 1..n |-> j], LAMBDA j : parent[j] = i)

\* the tree of nodes 1..n below a root, parent[j] the parent of node j
FromParents(root, nodes, parent) ==
    LET n == Len(nodes)
    IN  [i \in 0..n |->
            IF i = 0 THEN [root EXCEPT !.contents = Children(parent, n, 0)]
            ELSE [nodes[i] EXCEPT !.contents = Children(parent, n, i)]]

\* the parent vectors that number the nodes in document order
ParentVectors(n) ==
    {parent \in [1..n -> 0..(n - 1)] :
        \A j \in 1..n :
            /\ parent[j] < j
            /\ \A k \in (parent[j] + 1)..(j - 1) : parent[k] >= parent[j]}

Seqs(S, n) == UNION {[1..m -> S] : m \in 0..n}

Trees(root, Kinds, max) ==
    {FromParents(root, nodes, parent) :
        <<nodes, parent>> \in
            UNION {[1..m -> Kinds] \X ParentVectors(m) : m \in 0..max}}

\* lines of an embedded MATLAB source
SourceLines ==
    { <<"c", "=", "'", "$", "'">>,
      <<"%", " ", "$", "x", "+", "y", "$">>,
      <<" ", " ", "%", " ", "$", "a", "^", "2", "$">>,
      <<"%", " ", "$", "a", " ", "+">>,
      <<"%", " ", "b", "$">>,
      <<"%", " ", "t", "e", "x", "t">> }

\* the text of a comment holding a source, with or without the sentinel
CommentText(lines, sentinel) ==
    IF sentinel
    THEN <<"\n">> \o SENTINEL \o <<"\n">> \o Join(lines, "\n")
         \o <<"\n", "##### SOURCE END #####", "\n">>
    ELSE <<"\n">> \o Join(lines, "\n") \o <<"\n">>

Comments ==
    {<<>>} \cup
    {<<Comment(CommentText(lines, sentinel))>> :
        lines \in Seqs(SourceLines, MaxSourceLines), sentinel \in BOOLEAN}

\* documents of images followed by at most one comment
EquationDocs ==
    {FromParents(Document(<<>>), images \o comment,
                 [j \in 1..(Len(images) + Len(comment)) |-> 0]) :
        images \in Seqs({EquationImage, FigureImage}, MaxImages),
        comment \in Comments}

HeadingKinds ==
    { Tag("h1", {}, <<"T">>, <<>>), Tag("h2", {}, <<"t">>, <<>>),
      Tag("p", {}, <<"x">>, <<>>) }

AnchorDocs == Trees(Document(<<>>), HeadingKinds, MaxHeadings)

SectionKinds ==
    { Div(<<"outputParagraph">>, <<>>),
      Div(<<"LineNodeBlock", "contiguous">>, <<>>),
      Div(<<"inlineWrapper">>, <<>>),
      Div(<<"inlineWrapper", "outputs">>, <<"x">>) }

SectionDocs == Trees(Div(<<"SectionBlock">>, <<>>), SectionKinds, MaxNodes)

CodeLines ==
    { Div(<<"inlineWrapper">>, <<>>), Div(<<"inlineWrapper">>, <<"x">>),
      Div(<<"inlineWrapper">>, <<" ">>) }

\* a code block: a LineNodeBlock holding code lines
CodeBlocks ==
    {FromParents(Div(<<"LineNodeBlock">>, <<>>), lines, [j \in 1..Len(lines) |-> 0]) :
        lines \in Seqs(CodeLines, MaxLines)}

TitleElements ==
    {<<>>} \cup {<<Tag("title", {}, t, <<>>)>> : t \in {<<>>, <<"D", "o", "c">>}}

ConvertSources ==
    { <<>>,
      << <<"%", " ", "$", "x", "+", "y", "$">> >>,
      << <<"%", " ", "$", "x", "+", "y", "$">>,
         <<" ", " ", "%", " ", "$", "a", "^", "2", "$">> >>,
      << <<"%", " ", "$", "a", " ", "+">>, <<"%", " ", "b", "$">> >> }

ConvertComments ==
    {<<>>} \cup
    {<<Comment(CommentText(lines, sentinel))>> :
        lines \in ConvertSources, sentinel \in BOOLEAN}

\* a MATLAB export: a head with a style and perhaps a title, a body with one
\* section (a heading, a code block of two lines, an output holding a
\* figure, then the images) and perhaps the comment holding the source
ConvertDocs ==
    {LET fixed == << Tag("head", {}, <<>>, <<>>), Tag("style", {}, <<"s">>, <<>>),
                     Tag("body", {}, <<>>, <<>>), Div(<<"SectionBlock">>, <<>>),
                     Tag("h1", {}, <<"T">>, <<>>),
                     Div(<<"LineNodeBlock", "contiguous">>, <<>>),
                     Div(<<"inlineWrapper">>, <<>>),
                     Div(<<"inlineWrapper", "outputs">>, <<"x">>),
                     Div(<<"outputParagraph">>, <<>>), FigureImage >>
         fixedParent == <<0, 1, 0, 3, 4, 4, 6, 6, 4, 9>>
         n == Len(fixed) + Len(images) + Len(comment) + Len(title)
     IN  FromParents(Document(<<>>), fixed \o images \o comment \o title,
             [j \in 1..n |->
                 IF j <= Len(fixed) THEN fixedParent[j]
                 ELSE IF j <= Len(fixed) + Len(images) THEN 4
                 ELSE IF j <= Len(fixed) + Len(images) + Len(comment) THEN 3
                 ELSE 1]) :
        images \in Seqs({EquationImage, FigureImage}, MaxImages),
        comment \in ConvertComments, title \in TitleElements}

-----------------------------------------------------------------------------
(* convert(in_file, out_file), statement by statement *)

Init ==
    /\ html_source \in ConvertDocs
    /\ soup = html_source
    /\ pc = "convert_equations"
    /\ raised = "none"
    /\ split_sections = <<>>
    /\ rendered = <<>>
    /\ calls = 0

\* convert_equations(soup): an exception leaves convert at once
RunConvertEquations ==
    /\ pc = "convert_equations"
    /\ LET r == convert_equations(soup)
       IN  /\ soup' = r.soup
           /\ raised' = r.raised
           /\ pc' = IF r.raised = "none" THEN "make_titles_into_anchors" ELSE "failed"
    /\ UNCHANGED <<html_source, split_sections, rendered, calls>>

RunMakeTitlesIntoAnchors ==
    /\ pc = "make_titles_into_anchors"
    /\ soup' = make_titles_into_anchors(soup)
    /\ pc' = "process_sections"
    /\ UNCHANGED <<html_source, raised, split_sections, rendered, calls>>

RunProcessSections ==
    /\ pc = "process_sections"
    /\ LET r == ProcessSections(soup, SectionBlocks(soup), <<>>)
       IN  /\ soup' = r.soup
           /\ split_sections' = r.split_sections
    /\ pc' = "render"
    /\ UNCHANGED <<html_source, raised, rendered, calls>>

\* title = soup.title.string, then the template is rendered and written;
\* without a title element soup.title is None and .string raises
Render ==
    /\ pc = "render"
    /\ LET title == SoupTitle(soup)
       IN  IF title = None
           THEN /\ raised' = "AttributeError"
                /\ pc' = "failed"
                /\ UNCHANGED rendered
           ELSE /\ rendered' = <<[title |-> RenderTitle(soup, title),
                                  sections |-> split_sections]>>
                /\ pc' = "done"
                /\ UNCHANGED raised
    /\ UNCHANGED <<html_source, soup, split_sections, calls>>

Next ==
    \/ RunConvertEquations
    \/ RunMakeTitlesIntoAnchors
    \/ RunProcessSections
    \/ Render

Spec == Init /\ [][Next]_vars

-----------------------------------------------------------------------------
(* The functions called on their own *)

InitCall(docs) ==
    /\ html_source \in docs
    /\ soup = html_source
    /\ pc = "call"
    /\ raised = "none"
    /\ split_sections = <<>>
    /\ rendered = <<>>
    /\ calls = 0

CallConvertEquations ==
    /\ pc = "call"
    /\ LET r == convert_equations(soup)
       IN  /\ soup' = r.soup
           /\ raised' = r.raised
           /\ pc' = IF r.raised = "none" THEN "returned" ELSE "raised"
    /\ calls' = calls + 1
    /\ UNCHANGED <<html_source, split_sections, rendered>>

InitEquations == InitCall(EquationDocs)
NextEquations == CallConvertEquations
SpecEquations == InitEquations /\ [][NextEquations]_vars

\* make_titles_into_anchors(soup), called again on the tree it left
CallMakeTitlesIntoAnchors ==
    /\ pc = "call"
    /\ calls < MaxCalls
    /\ soup' = make_titles_into_anchors(soup)
    /\ calls' = calls + 1
    /\ UNCHANGED <<html_source, pc, raised, split_sections, rendered>>

InitAnchors == InitCall(AnchorDocs)
NextAnchors == CallMakeTitlesIntoAnchors
SpecAnchors == InitAnchors /\ [][NextAnchors]_vars

\* process_section(section) on a section that is the root of the tree
CallProcessSection ==
    /\ pc = "call"
    /\ LET r == process_section(soup, Root)
       IN  /\ soup' = r.soup
           /\ split_sections' = <<[section |-> r.section, outputs |-> r.outputs]>>
    /\ pc' = "returned"
    /\ calls' = calls + 1
    /\ UNCHANGED <<html_source, raised, rendered>>

InitSection == InitCall(SectionDocs)
NextSection == CallProcessSection
SpecSection == InitSection /\ [][NextSection]_vars

\* trim_empty_code_lines(code_block), called again on the block it left
CallTrimEmptyCodeLines ==
    /\ pc = "call"
    /\ calls < MaxCalls
    /\ soup' = trim_empty_code_lines(soup, Root)
    /\ calls' = calls + 1
    /\ UNCHANGED <<html_source, pc, raised, split_sections, rendered>>

InitTrim == InitCall(CodeBlocks)
NextTrim == CallTrimEmptyCodeLines
SpecTrim == InitTrim /\ [][NextTrim]_vars

-----------------------------------------------------------------------------
(* Properties of convert_equations *)

\* the document has a comment whose stripped text begins with the sentinel
HasSentinelComment(h) ==
    \E id \in DOMAIN h :
        h[id].name = "#comment" /\ StartsWith(Strip(h[id].string), SENTINEL)

NonFigureImages(h) ==
    {id \in DOMAIN h : h[id].name = "img" /\ \A a \in h[id].attrs : a.name # "class"}

ExtractedEquations(h) == Equations(MlSource(h))

CountsDiffer(h) ==
    HasSentinelComment(h) /\ Len(ExtractedEquations(h)) # Cardinality(NonFigureImages(h))

CountsEqual(h) ==
    HasSentinelComment(h) /\ Len(ExtractedEquations(h)) = Cardinality(NonFigureImages(h))

\* the call of convert_equations is over, by return or by exception
EquationsCalled == pc \in {"returned", "raised"}

\* every node of the document before the call is where it was, as it was
TreeUntouched ==
    /\ Descendants(soup, Root) = Descendants(html_source, Root)
    /\ \A id \in DOMAIN html_source : soup[id] = html_source[id]

\* C1: when the number of extracted equations differs from the number of
\* non-figure images, convert_equations replaces no image: every image is
\* still present, unmodified and in the same position.
C1_AllOrNothing ==
    (EquationsCalled /\ CountsDiffer(html_source)) =>
        /\ Descendants(soup, Root) = Descendants(html_source, Root)
        /\ \A id \in DOMAIN html_source :
              html_source[id].name = "img" => soup[id] = html_source[id]

\* C2: a count mismatch, in either direction, is not fatal: convert_equations
\* raises no error and the conversion goes on to the later steps.
C2_MismatchNonFatal ==
    (pc # "convert_equations" /\ CountsDiffer(html_source)) =>
        /\ raised # "IndexError"
        /\ pc \in {"make_titles_into_anchors", "process_sections", "render", "done"}
           \/ raised = "AttributeError"

\* C8: without a comment that begins with the sentinel, convert_equations
\* returns normally and leaves the whole tree as it was.
C8_MissingSourceNoOp ==
    (EquationsCalled /\ ~HasSentinelComment(html_source)) =>
        /\ raised = "none"
        /\ TreeUntouched
        /\ DOMAIN soup = DOMAIN html_source

\* a document without sentinel that has an image to replace and a comment
\* with an equation in it
C8_Witness ==
    /\ pc = "returned"
    /\ ~HasSentinelComment(html_source)
    /\ NonFigureImages(html_source) # {}
    /\ \E id \in DOMAIN html_source :
          html_source[id].name = "#comment" /\ FindAll(html_source[id].string) # <<>>

\* the text of an equation with the newlines dropped and each '%' that
\* follows a newline replaced by repl, read off in one pass
RECURSIVE OneLine(_, _, _)
OneLine(eq, i, repl) ==
    IF i > Len(eq) THEN <<>>
    ELSE (IF eq[i] = "\n" THEN <<>>
          ELSE IF eq[i] = "%" /\ i > 1 /\ eq[i - 1] = "\n" THEN repl
          ELSE <<eq[i]>>)
         \o OneLine(eq, i + 1, repl)

SigilsRemoved(equations) ==
    [i \in 1..Len(equations) |-> OneLine(equations[i], 1, <<>>)]
SigilsBlanked(equations) ==
    [i \in 1..Len(equations) |-> OneLine(equations[i], 1, <<" ">>)]

\* the rank of position p among the non-figure images of the document
ImageRank(before, p) ==
    Cardinality({q \in 1..p : before[q] \in NonFigureImages(html_source)})

\* after the call every non-figure image has given its place to a new
\* span holding the text of its rank, and the rest is untouched
Substituted(texts) ==
    LET before == Descendants(html_source, Root)
        after == Descendants(soup, Root)
    IN  /\ raised = "none"
        /\ Len(after) = Len(before)
        /\ NonFigureImages(soup) \cap {after[p] : p \in 1..Len(after)} = {}
        /\ \A p \in 1..Len(before) :
              IF before[p] \in NonFigureImages(html_source)
              THEN /\ after[p] \notin DOMAIN html_source
                   /\ soup[after[p]].name = "span"
                   /\ soup[after[p]].contents = <<>>
                   /\ soup[after[p]].string = texts[ImageRank(before, p)]
              ELSE /\ after[p] = before[p]
                   /\ soup[after[p]].name = html_source[before[p]].name
                   /\ soup[after[p]].attrs = html_source[before[p]].attrs
                   /\ soup[after[p]].string = html_source[before[p]].string

Delimited(eq) ==
    /\ Len(eq) >= 3
    /\ eq[1] = "$" /\ eq[Len(eq)] = "$"
    /\ \A j \in 2..(Len(eq) - 1) : eq[j] \notin {"$", "\n"}

Bodies(equations) ==
    [i \in 1..Len(equations) |-> SubSeq(equations[i], 2, Len(equations[i]) - 1)]

AllDelimited(h) ==
    \A i \in 1..Len(ExtractedEquations(h)) : Delimited(ExtractedEquations(h)[i])

\* every non-figure image has given its place to a span with exactly the
\* attributes attrs
SpansCarry(attrs) ==
    LET before == Descendants(html_source, Root)
        after == Descendants(soup, Root)
    IN  \A p \in 1..Len(before) :
            before[p] \in NonFigureImages(html_source) =>
                p <= Len(after) /\ soup[after[p]].attrs = attrs

-----------------------------------------------------------------------------
(* Properties of convert *)

\* the document has no title element, or none with text in it
NoTitleText(h) == \A id \in DOMAIN h : h[id].name = "title" => h[id].string = <<>>

\* C9: a document without a title element, or with an empty one, is
\* converted all the same, and the output is rendered with the empty string
\* as title.
C9_TitleTolerated ==
    NoTitleText(html_source) =>
        /\ raised # "AttributeError"
        /\ pc = "done" => rendered[1].title = <<>>

-----------------------------------------------------------------------------
(* Properties of process_section *)

OutputBlocks(h) ==
    {id \in DOMAIN h \ {Root} : h[id].name = "div" /\ HasClass(h[id], "outputParagraph")}

\* the i-th output block of the section in document order (the nodes of
\* html_source are numbered in document order)
NthBlock(i) ==
    CHOOSE id \in OutputBlocks(html_source) :
        Cardinality({b \in OutputBlocks(html_source) : b <= id}) = i

RECURSIVE HasOutputBlock(_)
HasOutputBlock(markup) ==
    \E i \in 1..Len(markup) :
        \/ markup[i].name = "div" /\ HasClass(markup[i], "outputParagraph")
        \/ HasOutputBlock(markup[i].contents)

\* C5: process_section returns as many right-pane fragments as the section
\* had output blocks, nested ones included, in document order, and the
\* left-pane markup holds none of the blocks.
C5_OutputsSplitOff ==
    pc = "returned" =>
        LET pair == split_sections[1]
        IN  /\ Len(pair.outputs) = Cardinality(OutputBlocks(html_source))
            /\ \A i \in 1..Len(pair.outputs) :
                  pair.outputs[i] = EncodeContents(soup, NthBlock(i))
            /\ ~HasOutputBlock(pair.section)

\* a section with an output block inside another and a third one elsewhere
C5_Witness ==
    /\ pc = "returned"
    /\ Len(split_sections[1].outputs) >= 3
    /\ \E a, b \in OutputBlocks(html_source) : ParentOf(html_source, b) = a
    /\ split_sections[1].section # <<>>

-----------------------------------------------------------------------------
(* Properties of make_titles_into_anchors *)

Headings(h) == {id \in DOMAIN h : h[id].name \in {"h1", "h2"}}

\* the rank of a heading among the headings, in document order
HeadingRank(t) == Cardinality({u \in Headings(html_source) : u <= t})

RECURSIVE Ancestor(_, _, _)
Ancestor(h, id, j) == IF j = 0 THEN id ELSE Ancestor(h, ParentOf(h, id), j - 1)

DigitValue(c) == CHOOSE d \in 0..9 : Digit(d) = c

RECURSIVE DecimalValue(_)
DecimalValue(digits) ==
    IF Len(digits) = 1 THEN DigitValue(digits[1])
    ELSE 10 * DecimalValue(SubSeq(digits, 1, Len(digits) - 1))
         + DigitValue(digits[Len(digits)])

\* the number n of an identifier anchor<n>, -1 for any other value
AnchorNumber(value) ==
    IF Len(value) > 6 /\ SubSeq(value, 1, 6) = <<"a", "n", "c", "h", "o", "r">>
    THEN DecimalValue(SubSeq(value, 7, Len(value)))
    ELSE -1

IndexIn(ids, id) == CHOOSE i \in 1..Len(ids) : ids[i] = id

\* C7: each call wraps every h1 and h2 in exactly one new link; the link
\* of the k-th heading in document order has the identifier anchor<k> and the
\* href '#'; a further call wraps each heading once more, link inside link.
C7_AnchorsNumbered ==
    /\ Cardinality(DOMAIN soup)
         = Cardinality(DOMAIN html_source) + calls * Cardinality(Headings(html_source))
    /\ \A t \in Headings(html_source) :
          /\ \A j \in 1..calls :
                LET a == Ancestor(soup, t, j)
                IN  /\ a \notin DOMAIN html_source
                    /\ soup[a].name = "a"
                    /\ soup[a].contents = <<Ancestor(soup, t, j - 1)>>
                    /\ \E x \in soup[a].attrs :
                          x.name = "id" /\ AnchorNumber(x.value) = HeadingRank(t)
                    /\ Attr("href", <<"#">>) \in soup[a].attrs
          /\ LET outer == Ancestor(soup, t, calls)
                 p == ParentOf(html_source, t)
             IN  /\ ParentOf(soup, outer) = p
                 /\ IndexIn(soup[p].contents, outer) = IndexIn(html_source[p].contents, t)

\* two calls on a document of several headings, one inside another
C7_Witness ==
    /\ calls = 2
    /\ Cardinality(Headings(html_source)) >= 3
    /\ \E t, u \in Headings(html_source) : ParentOf(html_source, u) = t

-----------------------------------------------------------------------------
(* Properties of trim_empty_code_lines *)

\* C6: the trim is idempotent: a second call on the block the first call
\* left changes nothing.
C6_TrimIdempotent == [][(calls >= 1 /\ calls' = calls + 1) => soup' = soup]_vars

\* a second call on a block that had empty lines at both ends
C6_Witness ==
    /\ calls = 2
    /\ Len(html_source[Root].contents) >= 3
    /\ html_source[Head(html_source[Root].contents)].string = <<>>
    /\ html_source[html_source[Root].contents[Len(html_source[Root].contents)]].string = <<>>
    /\ soup[Root].contents # <<>>

\* the positions of the lines of the block that have text
NonEmptyLines(h) ==
    {i \in 1..Len(h[Root].contents) : h[h[Root].contents[i]].string # <<>>}

Least(S) == CHOOSE i \in S : \A j \in S : i <= j
Greatest(S) == CHOOSE i \in S : \A j \in S : i >= j

\* C10: the trim removes exactly the leading run and the trailing run of
\* empty lines: what remains is nothing, or the lines from the first one with
\* text to the last one with text, the empty ones between them included, in
\* their order and as they were.
C10_TrimsBothEnds ==
    calls >= 1 =>
        LET lines == html_source[Root].contents
            kept == NonEmptyLines(html_source)
        IN  /\ soup[Root].contents =
                  IF kept = {} THEN <<>> ELSE SubSeq(lines, Least(kept), Greatest(kept))
            /\ \A i \in 1..Len(lines) : soup[lines[i]] = html_source[lines[i]]

\* a block with an empty line at each end and one between two lines with text
C10_Witness ==
    /\ calls = 1
    /\ LET lines == html_source[Root].contents
           kept == NonEmptyLines(html_source)
       IN  /\ Len(lines) >= 5
           /\ 1 \notin kept /\ Len(lines) \notin kept
           /\ \E i, j, k \in 1..Len(lines) :
                 i < j /\ j < k /\ i \in kept /\ j \notin kept /\ k \in kept

====
